---- MODULE Spec2Model ----
(***************************************************************************)
(* Model of micropython/stepper/bipolar.py: class BipolarStepper, a driver *)
(* of a bipolar stepper motor behind an L298N H-bridge.                    *)
(*                                                                         *)
(* The object's fields are the variables step_state, next_state, delay and *)
(* steps360; the four output lines are the variable pins.  Every public    *)
(* method is entered from pc = "idle" and runs to its return without       *)
(* interleaving (the program is single-threaded); next_steps and sleep are *)
(* split at their individual statements so that the order of the           *)
(* transition, the pin writes and the delay is part of the behaviour.      *)
(* Delays are in milliseconds.                                             *)
(***************************************************************************)
EXTENDS Integers, Sequences, FiniteSets, TLC

VARIABLES
    pc,          \* position of the single thread of control
    op,          \* public operation running, or the last one that returned
    arg,         \* integer argument of that operation, 0 when it has none
    names,       \* speed and direction names given to it, "" when it has none
    nsteps,      \* range(nsteps) of the running next_steps loop
    i,           \* completed iterations of that loop
    k,           \* index of the next pin write inside _move_motor / sleep
    step_state,  \* self._step_state
    next_state,  \* self._next_state, by the name of the bound method
    delay,       \* self._delay (ms)
    steps360,    \* self._steps360
    pins,        \* level of the four output lines pin1..pin4
    result,      \* outcome of the last split_steps call
    ntrans,      \* transitions applied since the running operation was entered
    nwrites,     \* pin writes issued since the running operation was entered
    ndelays,     \* delay waits completed since the running operation was entered
    waited,      \* milliseconds waited since the running operation was entered
    pre,         \* fields and output lines when the running operation was entered
    held,        \* pattern held when the latest sleep began, 0 once a step follows
    net,         \* forward steps minus backward steps since construction, modulo 4
    p0,          \* starting pattern of a walk of the transition rules
    path,        \* directions applied in that walk
    phase,       \* stage of a comparison of a split move with a single one
    parts,       \* the two step counts of the split move
    saved,       \* fields and lines from which both moves start
    log,         \* pin writes of _move_motor in the move being compared
    first        \* log and final fields of the split move

vars == <<pc, op, arg, names, nsteps, i, k, step_state, next_state, delay, steps360,
          pins, result, ntrans, nwrites, ndelays, waited, pre, held, net, p0, path,
          phase, parts, saved, log, first>>

-----------------------------------------------------------------------------
(* Bounds of the model *)

MaxSteps360 == 3
MaxQuarterTurns == 5
MaxNSteps == 5
MaxSplits == 8
MaxTotal == 24
MaxPath == 4
MaxPart == 3

(* steps360 values given to the constructor: the default and small ones *)
Steps360Values == {200} \cup (0 .. MaxSteps360)
(* angles given to next_angle: multiples of a quarter turn, two negative *)
Angles == {90 * q : q \in (-2) .. MaxQuarterTurns}
(* counts given to next_steps *)
StepCounts == (-2) .. MaxNSteps
(* arguments of split_steps *)
SplitArgs == (-2) .. MaxSplits
(* names given to set_speed / set_direction; "unknown" is in neither table *)
SpeedNames == {"high", "medium", "low", "test", "unknown"}
DirectionNames == {"forward", "backward", "unknown"}

-----------------------------------------------------------------------------
(* Python integer arithmetic *)

(* a // b and a % b for b # 0: floor division, remainder with the sign of b *)
PyFloorDiv(a, b) == IF b > 0 THEN a \div b ELSE (-a) \div (-b)
PyMod(a, b) == IF b > 0 THEN a % b ELSE -((-a) % (-b))

RECURSIVE BitAnd(_, _)
BitAnd(a, b) ==
    IF a = 0 \/ b = 0 THEN 0
    ELSE (IF a % 2 = 1 /\ b % 2 = 1 THEN 1 ELSE 0) + 2 * BitAnd(a \div 2, b \div 2)

RECURSIVE BitOr(_, _)
BitOr(a, b) ==
    IF a = 0 THEN b
    ELSE IF b = 0 THEN a
    ELSE (IF a % 2 = 1 \/ b % 2 = 1 THEN 1 ELSE 0) + 2 * BitOr(a \div 2, b \div 2)

ShiftRight(a, n) == a \div (2 ^ n)
ShiftLeft(a, n) == a * (2 ^ n)

-----------------------------------------------------------------------------
(* The phase sequencer *)

InitStepState == 12     \* 0b1100

(* a forward step that drops the wrapped bit *)
forward_step_nowrap(s) == ShiftRight(s, 1)

(* _forward_step: 1100 -> 0110 -> 0011 -> 1001 *)
forward_step(s) ==
    LET first_bit == BitAnd(s, 1)
    IN  BitOr(ShiftRight(s, 1), ShiftLeft(first_bit, 3))

(* a backward step without the 0b1111 mask *)
backward_step_nomask(s) ==
    LET last_bit == BitAnd(s, 8)
    IN  BitOr(ShiftLeft(s, 1), ShiftRight(last_bit, 3))

(* _backward_step: 1100 -> 1001 -> 0011 -> 0110 *)
backward_step(s) ==
    LET last_bit == BitAnd(s, 8)
    IN  BitOr(BitAnd(15, ShiftLeft(s, 1)), ShiftRight(last_bit, 3))

(* the two methods bound the wrong way round *)
apply_next_state_reversed(d, s) ==
    IF d = "backward" THEN forward_step(s) ELSE backward_step(s)

(* every call of next_steps starting again from the initial pattern *)
apply_next_state_restart(d, s) ==
    IF i = 0 THEN (IF d = "backward" THEN backward_step(InitStepState)
                   ELSE forward_step(InitStepState))
    ELSE (IF d = "backward" THEN backward_step(s) ELSE forward_step(s))

(* self._next_state(), the bound method stored by set_direction *)
apply_next_state(d, s) == IF d = "backward" THEN backward_step(s) ELSE forward_step(s)

-----------------------------------------------------------------------------
(* Speed and direction tables *)

SpeedTable == [n \in {"high", "medium", "low", "test"} |->
                 CASE n = "high" -> 3
                   [] n = "medium" -> 8
                   [] n = "low" -> 16
                   [] n = "test" -> 500]

(* a fallback that leaves the delay as it was *)
speed_delay_keep(name) ==
    IF name \in DOMAIN SpeedTable THEN SpeedTable[name] ELSE delay

(* set_speed: the table's delay, 'high' when the lookup raises *)
speed_delay(name) ==
    IF name \in DOMAIN SpeedTable THEN SpeedTable[name] ELSE SpeedTable["high"]

DicDirection == [n \in {"forward", "backward"} |-> n]

(* a fallback that leaves the direction as it was *)
direction_method_keep(name) ==
    IF name \in DOMAIN DicDirection THEN DicDirection[name]
    ELSE IF next_state \in DOMAIN DicDirection THEN next_state
    ELSE DicDirection["forward"]

(* set_direction: the table's method, 'forward' when the lookup raises *)
direction_method(name) ==
    IF name \in DOMAIN DicDirection THEN DicDirection[name] ELSE DicDirection["forward"]

-----------------------------------------------------------------------------
(* The output lines *)

PinNames == {"pin1", "pin2", "pin3", "pin4"}

(* Pin.value(x): the line is driven high iff x is truthy *)
PinValue(x) == x # 0

(* a _move_motor that writes A- twice and never B- *)
MoveOrder_no_pin3 == <<"pin2", "pin1", "pin4", "pin4">>

(* _move_motor writes pin2 (A+), pin1 (B+), pin4 (A-), pin3 (B-), in this order *)
MoveOrder == <<"pin2", "pin1", "pin4", "pin3">>

(* the masks of A+ and B+ exchanged *)
MoveMask_swapped(pin) ==
    CASE pin = "pin2" -> 4
      [] pin = "pin1" -> 8
      [] pin = "pin4" -> 2
      [] pin = "pin3" -> 1

(* the bit of the pattern each line is given by _move_motor *)
MoveMask(pin) ==
    CASE pin = "pin2" -> 8
      [] pin = "pin1" -> 4
      [] pin = "pin4" -> 2
      [] pin = "pin3" -> 1

(* a sleep that forgets the last line *)
SleepOrder_short == <<"pin1", "pin2", "pin3", "pin3">>

(* sleep writes pin1, pin2, pin3, pin4, in this order *)
SleepOrder == <<"pin1", "pin2", "pin3", "pin4">>

(* a sleep that writes the initial pattern, a truthy value, to the lines *)
SleepValue_pattern == InitStepState

(* the value sleep writes to every line *)
SleepValue == 0

AllOff == [p \in PinNames |-> FALSE]

-----------------------------------------------------------------------------
(* split_steps *)

NoResult == [kind |-> "none", val |-> <<>>]

(* nsplits * [x]: a list of nsplits copies of x, empty when nsplits <= 0 *)
Repeat(n, x) == IF n <= 0 THEN <<>> ELSE [j \in 1 .. n |-> x]

(* the whole remainder added to the last entry *)
AddFromEnd_last(l, r, j) ==
    IF r <= 0 THEN [kind |-> "list", val |-> l]
    ELSE IF Len(l) = 0 THEN [kind |-> "IndexError", val |-> <<>>]
    ELSE [kind |-> "list", val |-> [l EXCEPT ![Len(l)] = @ + r]]

(* for i in range(r): l[-1-i] += 1 *)
RECURSIVE AddFromEnd(_, _, _)
AddFromEnd(l, r, j) ==
    IF j >= r THEN [kind |-> "list", val |-> l]
    ELSE IF j + 1 > Len(l) THEN [kind |-> "IndexError", val |-> <<>>]
    ELSE AddFromEnd([l EXCEPT ![Len(l) - j] = @ + 1], r, j + 1)

(* the remainder handed out from the front of the list instead of its end *)
split_steps_from_front(total, nsplits) ==
    IF nsplits = 0 THEN [kind |-> "ZeroDivisionError", val |-> <<>>]
    ELSE LET q == PyFloorDiv(total, nsplits)
             r == PyMod(total, nsplits)
         IN  [kind |-> "list",
              val |-> IF nsplits <= 0 THEN <<>>
                      ELSE [j \in 1 .. nsplits |-> IF j <= r THEN q + 1 ELSE q]]

(* split_steps(nsplits) on an object whose steps360 is total *)
split_steps(total, nsplits) ==
    IF nsplits = 0 THEN [kind |-> "ZeroDivisionError", val |-> <<>>]
    ELSE LET l == Repeat(nsplits, PyFloorDiv(total, nsplits))
             r == PyMod(total, nsplits)
         IN  AddFromEnd(l, r, 0)

(* a conversion that rounds to the nearest step *)
angle_steps_rounded(total, angle) == PyFloorDiv(total * angle + 180, 360)

(* a conversion that takes the size of the angle and drops its sign *)
angle_steps_abs(total, angle) ==
    PyFloorDiv(total * (IF angle < 0 THEN -angle ELSE angle), 360)

(* next_angle's conversion: self.steps360*angle//360 *)
angle_steps(total, angle) == PyFloorDiv(total * angle, 360)

-----------------------------------------------------------------------------
(* Operations *)

NoNames == <<"", "">>

walk_unused == /\ p0' = p0
               /\ path' = path

pair_unused == UNCHANGED <<phase, parts, saved, log, first>>

(* the stage of the comparison a call of next_steps leads to *)
NextPhase(ph) ==
    CASE ph = "start" -> "first"
      [] ph = "first" -> "second"
      [] ph = "restored" -> "single"
      [] OTHER -> ph

Snapshot == [step_state |-> step_state, next_state |-> next_state,
             delay |-> delay, steps360 |-> steps360, pins |-> pins]

(* a public operation is entered: its counters start at zero *)
call_entry == /\ ntrans' = 0 /\ nwrites' = 0 /\ ndelays' = 0 /\ waited' = 0
              /\ pre' = Snapshot

fields_unchanged == UNCHANGED <<step_state, next_state, delay, steps360>>

(* __init__ up to its final call of sleep(): lines 47-64 *)
Construct(speed, direction, total) ==
    /\ pc = "new"
    /\ delay' = speed_delay(speed)
    /\ steps360' = total
    /\ step_state' = InitStepState
    /\ next_state' = direction_method(direction)
    /\ op' = "init"
    /\ arg' = total
    /\ names' = <<speed, direction>>
    /\ held' = InitStepState
    /\ net' = 0
    /\ pc' = "sleep"
    /\ k' = 1
    /\ call_entry
    /\ UNCHANGED <<nsteps, i, pins, result>>
    /\ walk_unused
    /\ pair_unused

set_speed(speed) ==
    /\ pc = "idle"
    /\ delay' = speed_delay(speed)
    /\ op' = "set_speed"
    /\ arg' = 0
    /\ names' = <<speed, "">>
    /\ call_entry
    /\ nsteps' = 0 /\ i' = 0 /\ k' = 1
    /\ result' = NoResult
    /\ UNCHANGED <<pc, step_state, next_state, steps360, pins, held>>
    /\ walk_unused
    /\ pair_unused
    /\ UNCHANGED net

set_direction(direction) ==
    /\ pc = "idle"
    /\ next_state' = direction_method(direction)
    /\ op' = "set_direction"
    /\ arg' = 0
    /\ names' = <<"", direction>>
    /\ call_entry
    /\ nsteps' = 0 /\ i' = 0 /\ k' = 1
    /\ result' = NoResult
    /\ UNCHANGED <<pc, step_state, delay, steps360, pins, held>>
    /\ walk_unused
    /\ pair_unused
    /\ UNCHANGED net

(* a loop over range(n + 1) *)
next_steps_one_more(n) ==
    /\ pc = "idle"
    /\ op' = "next_steps"
    /\ arg' = n
    /\ names' = NoNames
    /\ nsteps' = n + 1
    /\ i' = 0
    /\ pc' = "loop"
    /\ call_entry
    /\ k' = 1
    /\ result' = NoResult
    /\ UNCHANGED <<pins, held, net>>
    /\ fields_unchanged
    /\ walk_unused
    /\ phase' = NextPhase(phase)
    /\ UNCHANGED <<parts, saved, log, first>>

(* entry of next_steps(n): the loop over range(n) starts *)
next_steps(n) ==
    /\ pc = "idle"
    /\ op' = "next_steps"
    /\ arg' = n
    /\ names' = NoNames
    /\ nsteps' = n
    /\ i' = 0
    /\ pc' = "loop"
    /\ call_entry
    /\ k' = 1
    /\ result' = NoResult
    /\ UNCHANGED <<pins, held>>
    /\ fields_unchanged
    /\ walk_unused
    /\ phase' = NextPhase(phase)
    /\ UNCHANGED <<parts, saved, log, first>>
    /\ UNCHANGED net

(* entry of next_angle(angle): converts and delegates to next_steps *)
next_angle(angle) ==
    /\ pc = "idle"
    /\ op' = "next_angle"
    /\ arg' = angle
    /\ names' = NoNames
    /\ nsteps' = angle_steps(steps360, angle)
    /\ i' = 0
    /\ pc' = "loop"
    /\ call_entry
    /\ k' = 1
    /\ result' = NoResult
    /\ UNCHANGED <<pins, held>>
    /\ fields_unchanged
    /\ walk_unused
    /\ pair_unused
    /\ UNCHANGED net

(* one iteration begins: self._next_state() *)
StepTransition ==
    /\ pc = "loop"
    /\ i < nsteps
    /\ step_state' = apply_next_state(next_state, step_state)
    /\ ntrans' = ntrans + 1
    /\ held' = 0
    /\ net' = (net + (IF next_state = "backward" THEN 3 ELSE 1)) % 4
    /\ pc' = "move"
    /\ k' = 1
    /\ UNCHANGED <<op, arg, names, nsteps, i, next_state, delay, steps360, pins, result,
                   nwrites, ndelays, waited, pre>>
    /\ walk_unused
    /\ pair_unused

(* one of the four pin writes of _move_motor *)
MoveWrite ==
    /\ pc = "move"
    /\ k <= Len(MoveOrder)
    /\ pins' = [pins EXCEPT ![MoveOrder[k]] = PinValue(BitAnd(step_state, MoveMask(MoveOrder[k])))]
    /\ nwrites' = nwrites + 1
    /\ k' = k + 1
    /\ UNCHANGED <<pc, op, arg, names, nsteps, i, result, ntrans, ndelays, waited, pre, held>>
    /\ fields_unchanged
    /\ walk_unused
    /\ log' = IF phase = "off" THEN log
               ELSE Append(log, <<MoveOrder[k], pins'[MoveOrder[k]]>>)
    /\ UNCHANGED <<phase, parts, saved, first>>
    /\ UNCHANGED net

(* utime.sleep(self._delay), the end of the iteration *)
MoveDelay ==
    /\ pc = "move"
    /\ k > Len(MoveOrder)
    /\ ndelays' = ndelays + 1
    /\ waited' = waited + delay
    /\ i' = i + 1
    /\ pc' = "loop"
    /\ UNCHANGED <<op, arg, names, nsteps, k, pins, result, ntrans, nwrites, pre, held>>
    /\ fields_unchanged
    /\ walk_unused
    /\ pair_unused
    /\ UNCHANGED net

(* range(nsteps) is exhausted: next_steps returns *)
StepsReturn ==
    /\ pc = "loop"
    /\ i >= nsteps
    /\ pc' = "idle"
    /\ UNCHANGED <<op, arg, names, nsteps, i, k, pins, result, ntrans, nwrites, ndelays,
                   waited, pre, held>>
    /\ fields_unchanged
    /\ walk_unused
    /\ pair_unused
    /\ UNCHANGED net

(* entry of sleep() *)
sleep ==
    /\ pc = "idle"
    /\ op' = "sleep"
    /\ arg' = 0
    /\ names' = NoNames
    /\ held' = step_state
    /\ pc' = "sleep"
    /\ k' = 1
    /\ call_entry
    /\ nsteps' = 0 /\ i' = 0
    /\ result' = NoResult
    /\ UNCHANGED pins
    /\ fields_unchanged
    /\ walk_unused
    /\ pair_unused
    /\ UNCHANGED net

(* one of the four pin writes of sleep *)
SleepWrite ==
    /\ pc = "sleep"
    /\ k <= Len(SleepOrder)
    /\ pins' = [pins EXCEPT ![SleepOrder[k]] = PinValue(SleepValue)]
    /\ nwrites' = nwrites + 1
    /\ k' = k + 1
    /\ UNCHANGED <<pc, op, arg, names, nsteps, i, result, ntrans, ndelays, waited, pre, held>>
    /\ fields_unchanged
    /\ walk_unused
    /\ pair_unused
    /\ UNCHANGED net

(* sleep returns (and with it __init__, which ends by calling it) *)
SleepReturn ==
    /\ pc = "sleep"
    /\ k > Len(SleepOrder)
    /\ pc' = "idle"
    /\ UNCHANGED <<op, arg, names, nsteps, i, k, pins, result, ntrans, nwrites, ndelays,
                   waited, pre, held>>
    /\ fields_unchanged
    /\ walk_unused
    /\ pair_unused
    /\ UNCHANGED net

(* a split_steps that keeps the size of one part as the new steps360 *)
SplitSteps_consuming(nsplits) ==
    /\ pc = "idle"
    /\ result' = split_steps(steps360, nsplits)
    /\ steps360' = IF nsplits > 0 THEN PyFloorDiv(steps360, nsplits) ELSE steps360
    /\ op' = "split_steps"
    /\ arg' = nsplits
    /\ names' = NoNames
    /\ call_entry
    /\ nsteps' = 0 /\ i' = 0 /\ k' = 1
    /\ UNCHANGED <<pc, pins, held, step_state, next_state, delay>>
    /\ walk_unused
    /\ pair_unused
    /\ UNCHANGED net

SplitSteps(nsplits) ==
    /\ pc = "idle"
    /\ result' = split_steps(steps360, nsplits)
    /\ op' = "split_steps"
    /\ arg' = nsplits
    /\ names' = NoNames
    /\ call_entry
    /\ nsteps' = 0 /\ i' = 0 /\ k' = 1
    /\ UNCHANGED <<pc, pins, held>>
    /\ fields_unchanged
    /\ walk_unused
    /\ pair_unused
    /\ UNCHANGED net

-----------------------------------------------------------------------------
(* The driver: any sequence of public operations on one object *)

NoSnapshot == [step_state |-> 0, next_state |-> "none", delay |-> 0,
               steps360 |-> 0, pins |-> AllOff]

(* no comparison of moves is under way *)
NoComparison ==
    /\ phase = "off"
    /\ parts = [a |-> 0, b |-> 0]
    /\ saved = NoSnapshot
    /\ log = <<>>
    /\ first = [log |-> <<>>, fields |-> <<>>]

Init ==
    /\ pc = "new"
    /\ op = "none"
    /\ arg = 0
    /\ names = NoNames
    /\ nsteps = 0
    /\ i = 0
    /\ k = 1
    /\ step_state = 0
    /\ next_state = "none"
    /\ delay = 0
    /\ steps360 = 0
    /\ pins \in [PinNames -> BOOLEAN]
    /\ result = NoResult
    /\ ntrans = 0 /\ nwrites = 0 /\ ndelays = 0 /\ waited = 0
    /\ pre = Snapshot
    /\ held = 0
    /\ net = 0
    /\ p0 = 0
    /\ path = <<>>
    /\ NoComparison

Next ==
    \/ \E speed \in SpeedNames, direction \in DirectionNames, total \in Steps360Values :
          Construct(speed, direction, total)
    \/ \E speed \in SpeedNames : set_speed(speed)
    \/ \E direction \in DirectionNames : set_direction(direction)
    \/ \E n \in StepCounts : next_steps(n)
    \/ \E angle \in Angles : next_angle(angle)
    \/ StepTransition
    \/ MoveWrite
    \/ MoveDelay
    \/ StepsReturn
    \/ sleep
    \/ SleepWrite
    \/ SleepReturn
    \/ \E nsplits \in SplitArgs : SplitSteps(nsplits)

Spec == Init /\ [][Next]_vars

(* The thread of control does not stop inside a method: the statement it   *)
(* has reached is executed, and utime.sleep returns once the delay is over *)
Progress ==
    /\ WF_vars(StepTransition)
    /\ WF_vars(MoveWrite)
    /\ WF_vars(MoveDelay)
    /\ WF_vars(StepsReturn)
    /\ WF_vars(SleepWrite)
    /\ WF_vars(SleepReturn)

SpecLive == Spec /\ Progress

-----------------------------------------------------------------------------
(* The transition rules as pure functions: walks of at most MaxPath steps  *)
(* from each of the 16 four-bit patterns                                   *)

object_unused == UNCHANGED <<pc, op, arg, names, nsteps, i, k, next_state, delay, steps360,
                             pins, result, ntrans, nwrites, ndelays, waited, pre, held, net,
                             phase, parts, saved, log, first>>

InitWalk ==
    /\ pc = "walk"
    /\ op = "none"
    /\ arg = 0
    /\ names = NoNames
    /\ nsteps = 0
    /\ i = 0
    /\ k = 1
    /\ step_state \in 0 .. 15
    /\ next_state = "none"
    /\ delay = 0
    /\ steps360 = 0
    /\ pins = AllOff
    /\ result = NoResult
    /\ ntrans = 0 /\ nwrites = 0 /\ ndelays = 0 /\ waited = 0
    /\ pre = Snapshot
    /\ held = 0
    /\ net = 0
    /\ p0 = step_state
    /\ path = <<>>
    /\ NoComparison

WalkForward ==
    /\ pc = "walk"
    /\ Len(path) < MaxPath
    /\ step_state' = forward_step(step_state)
    /\ path' = Append(path, "forward")
    /\ p0' = p0
    /\ object_unused

WalkBackward ==
    /\ pc = "walk"
    /\ Len(path) < MaxPath
    /\ step_state' = backward_step(step_state)
    /\ path' = Append(path, "backward")
    /\ p0' = p0
    /\ object_unused

NextWalk == WalkForward \/ WalkBackward

SpecWalk == InitWalk /\ [][NextWalk]_vars

-----------------------------------------------------------------------------
(* split_steps as a pure function of steps360 and nsplits: a constructed,  *)
(* idle object for each total, on which split_steps is called              *)

InitSplit ==
    /\ pc = "idle"
    /\ op = "init"
    /\ nsteps = 0
    /\ i = 0
    /\ k = Len(SleepOrder) + 1
    /\ step_state = InitStepState
    /\ next_state \in {"forward", "backward"}
    /\ delay = SpeedTable["high"]
    /\ steps360 \in {200} \cup (0 .. MaxTotal)
    /\ arg = steps360
    /\ names = <<"high", next_state>>
    /\ pins = AllOff
    /\ result = NoResult
    /\ ntrans = 0 /\ nwrites = Len(SleepOrder) /\ ndelays = 0 /\ waited = 0
    /\ pre = Snapshot
    /\ held = InitStepState
    /\ net = 0
    /\ p0 = 0
    /\ path = <<>>
    /\ NoComparison

NextSplit == \E nsplits \in SplitArgs : SplitSteps(nsplits)

SpecSplit == InitSplit /\ [][NextSplit]_vars

-----------------------------------------------------------------------------
(* A split move against a single one: from each state an idle object can   *)
(* be in, next_steps(a) then next_steps(b) are run, the object is put back *)
(* to the state it started from, and next_steps(a + b) is run              *)

InitPair ==
    /\ pc = "idle"
    /\ op = "none"
    /\ arg = 0
    /\ names = NoNames
    /\ nsteps = 0
    /\ i = 0
    /\ k = 1
    /\ step_state \in {12, 6, 3, 9}
    /\ next_state \in {"forward", "backward"}
    /\ delay \in {SpeedTable[n] : n \in DOMAIN SpeedTable}
    /\ steps360 = 200
    /\ pins \in {AllOff,
                 [p \in PinNames |-> PinValue(BitAnd(step_state, MoveMask(p)))]}
    /\ result = NoResult
    /\ ntrans = 0 /\ nwrites = 0 /\ ndelays = 0 /\ waited = 0
    /\ pre = Snapshot
    /\ held = 0
    /\ net = CHOOSE j \in 0 .. 3 : <<12, 6, 3, 9>>[j + 1] = step_state
    /\ p0 = 0
    /\ path = <<>>
    /\ phase = "start"
    /\ parts \in [a : 0 .. MaxPart, b : 0 .. MaxPart]
    /\ saved = Snapshot
    /\ log = <<>>
    /\ first = [log |-> <<>>, fields |-> <<>>]

(* the call the comparison has come to *)
PairCall ==
    \/ phase = "start" /\ next_steps(parts.a)
    \/ phase = "first" /\ next_steps(parts.b)
    \/ phase = "restored" /\ next_steps(parts.a + parts.b)

(* the split move has returned: its log and final fields are kept and the  *)
(* object is put back to the state both moves start from                   *)
PairRestore ==
    /\ pc = "idle"
    /\ phase = "second"
    /\ first' = [log |-> log, fields |-> <<step_state, next_state, delay>>]
    /\ log' = <<>>
    /\ phase' = "restored"
    /\ step_state' = saved.step_state
    /\ next_state' = saved.next_state
    /\ delay' = saved.delay
    /\ pins' = saved.pins
    /\ net' = CHOOSE j \in 0 .. 3 : <<12, 6, 3, 9>>[j + 1] = saved.step_state
    /\ UNCHANGED <<pc, op, arg, names, nsteps, i, k, steps360, result, ntrans, nwrites,
                   ndelays, waited, pre, held, parts, saved>>
    /\ walk_unused

NextPair ==
    \/ PairCall
    \/ StepTransition
    \/ MoveWrite
    \/ MoveDelay
    \/ StepsReturn
    \/ PairRestore

SpecPair == InitPair /\ [][NextPair]_vars

-----------------------------------------------------------------------------
(* Properties *)

(* the canonical cycle, in forward order *)
Cycle == <<12, 6, 3, 9>>
Canonical == {Cycle[j] : j \in 1 .. 4}

(* bit n of a pattern *)
Bit(s, n) == (s \div (2 ^ n)) % 2 = 1

(* exactly two bits of the four are set and they are cyclically adjacent *)
TwoAdjacentBits(s) ==
    /\ s \in 0 .. 15
    /\ Cardinality({n \in 0 .. 3 : Bit(s, n)}) = 2
    /\ \E n \in 0 .. 3 : Bit(s, n) /\ Bit(s, (n + 1) % 4)

(* C1: once the object is constructed, whatever operations have run and    *)
(* wherever the running one stands, the stored pattern is one of 1100,     *)
(* 0110, 0011, 1001: exactly two bits set, cyclically adjacent.            *)
C1_PatternCanonical ==
    pc # "new" => (step_state \in Canonical /\ TwoAdjacentBits(step_state))

(* a backward move by next_angle has returned with the pattern on 1001 *)
C1_Witness ==
    /\ pc = "idle"
    /\ op = "next_angle"
    /\ next_state = "backward"
    /\ ntrans = 50
    /\ step_state = 9

(* the directions of a walk are all d *)
AllSame(d) == \A j \in 1 .. Len(path) : path[j] = d

(* C2: from each of the 16 four-bit patterns, four transitions in the same *)
(* direction, forward or backward, give the starting pattern back, and no  *)
(* transition leaves the four bits.                                        *)
C2_CycleOfFour ==
    /\ step_state \in 0 .. 15
    /\ (Len(path) = 4 /\ (AllSame("forward") \/ AllSame("backward"))) => step_state = p0

(* four backward transitions from the non-canonical pattern 0111 *)
C2_Witness ==
    /\ p0 = 7
    /\ path = <<"backward", "backward", "backward", "backward">>
    /\ step_state = 7

(* C3: from each of the 16 four-bit patterns, a forward transition then a  *)
(* backward one, or a backward one then a forward one, gives the starting  *)
(* pattern back.                                                           *)
C3_MutualInverses ==
    (Len(path) = 2 /\ path[1] # path[2]) => step_state = p0

(* forward then backward from the non-canonical pattern 1011 *)
C3_Witness ==
    /\ p0 = 11
    /\ path = <<"forward", "backward">>
    /\ step_state = 11

RECURSIVE Sum(_)
Sum(l) == IF l = <<>> THEN 0 ELSE Head(l) + Sum(Tail(l))

(* q = floor(a / b) for b > 0, by its defining inequality *)
IsFloor(q, a, b) == b * q <= a /\ a < b * (q + 1)

(* C4: for a total >= 0 and n_splits >= 1, split_steps returns a list of   *)
(* n_splits integers, the first n_splits - r equal to floor(total /        *)
(* n_splits) and the last r one more, r being total mod n_splits; the      *)
(* entries sum to total and differ by at most 1.                           *)
C4_SplitShape ==
    (op = "split_steps" /\ arg >= 1 /\ steps360 >= 0) =>
        /\ result.kind = "list"
        /\ Len(result.val) = arg
        /\ \E q \in 0 .. steps360 : \E r \in 0 .. arg - 1 :
              /\ IsFloor(q, steps360, arg)
              /\ steps360 = arg * q + r
              /\ \A j \in 1 .. arg :
                    result.val[j] = IF j <= arg - r THEN q ELSE q + 1
        /\ Sum(result.val) = steps360
        /\ \A j1, j2 \in 1 .. arg : result.val[j1] - result.val[j2] <= 1

(* 200 steps split in 7: remainder 4, handed to the last four entries *)
C4_Witness ==
    /\ op = "split_steps"
    /\ steps360 = 200
    /\ arg = 7
    /\ result = [kind |-> "list", val |-> <<28, 28, 28, 29, 29, 29, 29>>]

(* C5: split_steps with n_splits = 0 fails with an explicit                *)
(* invalid-argument error, not with a division fault and not by returning  *)
(* a list.                                                                 *)
C5_ZeroSplitsInvalidArgument ==
    (op = "split_steps" /\ arg = 0) => result.kind = "InvalidArgument"

(* C6: split_steps with a negative n_splits fails with an error; it never  *)
(* returns a list, in particular not an empty one.                         *)
C6_NegativeSplitsFail ==
    (op = "split_steps" /\ arg < 0) =>
        result.kind \in {"InvalidArgument", "ZeroDivisionError", "IndexError"}

(* C7: when construction returns, whatever speed and direction names and  *)
(* steps360 it was given and whatever the lines showed before, all four    *)
(* output lines are false and the stored pattern is 1100.                  *)
C7_ConstructedDeEnergized ==
    (pc = "idle" /\ op = "init") => (pins = AllOff /\ step_state = 12)

(* construction with two unrecognised names, from lines that were all high *)
C7_Witness ==
    /\ pc = "idle"
    /\ op = "init"
    /\ arg = 200
    /\ names = <<"unknown", "unknown">>
    /\ pre.pins = [p \in PinNames |-> TRUE]
    /\ pins = AllOff

(* the pattern after s in direction d, read off the canonical cycle *)
CycleIndex(s) == CHOOSE j \in 1 .. 4 : Cycle[j] = s
Successor(d, s) ==
    IF d = "backward" THEN Cycle[((CycleIndex(s) + 2) % 4) + 1]
    ELSE Cycle[(CycleIndex(s) % 4) + 1]

(* C8: no step of sleep, from its entry to its return, changes the stored  *)
(* pattern, direction or delay; when it returns the four lines are false;  *)
(* and the first transition after a sleep leads to the successor, in the   *)
(* stored direction, of the pattern held when that sleep began.            *)
C8_SleepFrame ==
    [][ /\ ((pc = "idle" /\ pc' = "sleep") \/ (pc = "sleep" /\ op = "sleep")) =>
              /\ step_state' = step_state
              /\ next_state' = next_state
              /\ delay' = delay
        /\ (pc = "sleep" /\ op = "sleep" /\ pc' = "idle") =>
              /\ pins' = AllOff
              /\ step_state' = pre.step_state
              /\ next_state' = pre.next_state
              /\ delay' = pre.delay
        /\ (ntrans' = ntrans + 1 /\ held # 0) =>
              step_state' = Successor(next_state, held)
      ]_vars

(* a sleep entered on 0011 with the lines energised has returned *)
C8_Witness ==
    /\ pc = "idle"
    /\ op = "sleep"
    /\ pre.pins # AllOff
    /\ pins = AllOff
    /\ step_state = 3
    /\ next_state = "backward"
    /\ delay = 16
    /\ held = 3

(* the bit of the pattern each line stands for: A+ (pin2) bit 3, B+ (pin1) *)
(* bit 2, A- (pin4) bit 1, B- (pin3) bit 0                                 *)
LineBit(p) ==
    CASE p = "pin2" -> 3
      [] p = "pin1" -> 2
      [] p = "pin4" -> 1
      [] p = "pin3" -> 0

(* the four lines show the pattern s *)
LinesShow(l, s) == \A p \in PinNames : l[p] = Bit(s, LineBit(p))

InSteps == op \in {"next_steps", "next_angle"}

(* C9: inside next_steps every advance is transition, then the four pin    *)
(* writes, then the delay: a transition starts only when every earlier     *)
(* advance has been written and waited for; a pin write happens only after *)
(* the transition of its own advance and gives its line the bit of the     *)
(* new pattern; the delay comes when the four lines show the new pattern   *)
(* and lasts the stored delay; nothing is written before the first         *)
(* transition.                                                             *)
C9_StepOrder ==
    [][ InSteps' =>
          /\ (ntrans' = ntrans + 1) =>
                /\ ndelays = ntrans
                /\ nwrites = 4 * ntrans
                /\ step_state' = Successor(next_state, step_state)
                /\ pins' = pins
          /\ (nwrites' = nwrites + 1) =>
                /\ ntrans = ndelays + 1
                /\ nwrites < 4 * ntrans
                /\ step_state' = step_state
                /\ \E p \in PinNames :
                      /\ \A o \in PinNames \ {p} : pins'[o] = pins[o]
                      /\ pins'[p] = Bit(step_state, LineBit(p))
                /\ nwrites' = 4 * ntrans => LinesShow(pins', step_state)
          /\ (ndelays' = ndelays + 1) =>
                /\ ntrans = ndelays + 1
                /\ nwrites = 4 * ntrans
                /\ LinesShow(pins, step_state)
                /\ delay = pre.delay
                /\ waited' = waited + delay
                /\ step_state' = step_state /\ pins' = pins
          /\ (ntrans' = 0) => (nwrites' = 0 /\ pins' = pre'.pins)
      ]_vars

(* the second advance of a move is written and about to be waited for *)
C9_Witness ==
    /\ InSteps
    /\ pc = "move"
    /\ ntrans = 2
    /\ nwrites = 8
    /\ ndelays = 1
    /\ step_state = 3
    /\ LinesShow(pins, 3)

(* the pattern n steps after s in direction d *)
Advance(d, s, n) ==
    IF d = "backward" THEN Cycle[((CycleIndex(s) - 1 + 3 * n) % 4) + 1]
    ELSE Cycle[((CycleIndex(s) - 1 + n) % 4) + 1]

(* C10: for an angle >= 0, next_angle returns after exactly                *)
(* floor(steps360 * angle / 360) advances, all in the stored direction,    *)
(* which it leaves as it was; with steps360 = 200, next_angle(90) makes 50.*)
C10_AngleSteps ==
    (pc = "idle" /\ op = "next_angle" /\ arg >= 0) =>
        /\ IsFloor(ntrans, steps360 * arg, 360)
        /\ ndelays = ntrans
        /\ nwrites = 4 * ntrans
        /\ next_state = pre.next_state
        /\ step_state = Advance(pre.next_state, pre.step_state, ntrans)
        /\ (steps360 = 200 /\ arg = 90) => ntrans = 50

(* next_angle(450) on 3 steps per revolution has made 3 advances (3.75     *)
(* truncated)                                                              *)
C10_Witness ==
    /\ pc = "idle"
    /\ op = "next_angle"
    /\ steps360 = 3
    /\ arg = 450
    /\ ntrans = 3

(* the fields and lines of the object *)
ObjectState == <<step_state, next_state, delay, steps360, pins>>

(* C11: set_speed returns having stored 3 ms for 'high', 8 for 'medium',   *)
(* 16 for 'low', 500 for 'test' and 3, the delay of 'high', for any other  *)
(* name, whatever delay was stored before; nothing else differs, so the    *)
(* state after an unknown name is the state set_speed('high') would leave. *)
C11_SetSpeed ==
    (pc = "idle" /\ op = "set_speed") =>
        /\ delay = CASE names[1] = "high" -> 3
                     [] names[1] = "medium" -> 8
                     [] names[1] = "low" -> 16
                     [] names[1] = "test" -> 500
                     [] OTHER -> 3
        /\ (names[1] \notin {"high", "medium", "low", "test"}) =>
              ObjectState = <<pre.step_state, pre.next_state, 3, pre.steps360, pre.pins>>

(* an unrecognised name given while the 'test' delay was stored *)
C11_Witness ==
    /\ pc = "idle"
    /\ op = "set_speed"
    /\ names[1] = "unknown"
    /\ pre.delay = 500
    /\ delay = 3

(* C12: set_direction returns having stored the forward transition for     *)
(* 'forward', the backward one for 'backward' and the forward one for any  *)
(* other name, whatever direction was stored before; nothing else differs, *)
(* so the state after an unknown name is the state set_direction('forward')*)
(* would leave.                                                            *)
C12_SetDirection ==
    (pc = "idle" /\ op = "set_direction") =>
        /\ next_state = (IF names[2] = "backward" THEN "backward" ELSE "forward")
        /\ (names[2] \notin {"forward", "backward"}) =>
              ObjectState = <<pre.step_state, "forward", pre.delay, pre.steps360, pre.pins>>
        /\ apply_next_state(next_state, 12) = (IF names[2] = "backward" THEN 9 ELSE 6)

(* an unrecognised name given while the direction was backward *)
C12_Witness ==
    /\ pc = "idle"
    /\ op = "set_direction"
    /\ names[2] = "unknown"
    /\ pre.next_state = "backward"
    /\ next_state = "forward"

(* the number of entries of l equal to x *)
Count(l, x) == Cardinality({j \in 1 .. Len(l) : l[j] = x})

(* C13 as stated: 200 steps split in 7 give seven entries summing to 200,  *)
(* six of them 28 and one 32.                                              *)
C13_SixAndOne ==
    (op = "split_steps" /\ steps360 = 200 /\ arg = 7) =>
        /\ result.kind = "list"
        /\ Len(result.val) = 7
        /\ Sum(result.val) = 200
        /\ Count(result.val, 28) = 6
        /\ Count(result.val, 32) = 1

(* C13 amended: 200 steps split in 7 give seven entries summing to 200,    *)
(* three entries of 28 followed by four entries of 29, the remainder 4     *)
(* being handed out one by one from the end of the list.                   *)
C13_ThreeAndFour ==
    (op = "split_steps" /\ steps360 = 200 /\ arg = 7) =>
        /\ result.kind = "list"
        /\ Len(result.val) = 7
        /\ Sum(result.val) = 200
        /\ \A j \in 1 .. 3 : result.val[j] = 28
        /\ \A j \in 4 .. 7 : result.val[j] = 29

(* split_steps(7) has returned on an object of 200 steps per revolution *)
C13_Witness ==
    /\ pc = "idle"
    /\ op = "split_steps"
    /\ steps360 = 200
    /\ arg = 7
    /\ result.kind = "list"
    /\ Count(result.val, 29) = 4

(* the lines show one of the four canonical patterns *)
ShowsCanonical(l) == \E c \in Canonical : LinesShow(l, c)

(* __init__ has returned *)
Constructed == pc # "new" /\ ~(op = "init" /\ pc = "sleep")

(* some but not all of the four pin writes of a step or of a sleep are done *)
WritesPartlyDone == pc \in {"move", "sleep"} /\ 1 < k /\ k <= 4

(* C14 as stated: once the object is constructed the lines are at every    *)
(* instant, also between the pin writes of a step or of a sleep, all false *)
(* or on a canonical pattern.                                              *)
C14_NeverIntermediate ==
    Constructed => (pins = AllOff \/ ShowsCanonical(pins))

(* C14 amended: once the object is constructed, at every instant at which  *)
(* no group of four pin writes is partly done (during every delay, and     *)
(* whenever an operation has returned) the lines are all false or on a     *)
(* canonical pattern.                                                      *)
C14_SettledLines ==
    (Constructed /\ ~WritesPartlyDone) => (pins = AllOff \/ ShowsCanonical(pins))

(* a step from energised lines on 1100 is fully written: the lines show    *)
(* 0110 and the delay is about to start                                    *)
C14_Witness ==
    /\ pc = "move"
    /\ k = 5
    /\ ntrans = 1
    /\ LinesShow(pre.pins, 12)
    /\ LinesShow(pins, 6)

(* C15: whenever a public operation has returned, the lines are all false  *)
(* or equal, bit for bit, to the stored pattern.                           *)
C15_ReturnedLines ==
    pc = "idle" => (pins = AllOff \/ LinesShow(pins, step_state))

(* a backward move of three steps has returned with the lines on 0110 *)
C15_Witness ==
    /\ pc = "idle"
    /\ op = "next_angle"
    /\ next_state = "backward"
    /\ ntrans = 3
    /\ step_state = 6
    /\ LinesShow(pins, 6)

(* a step that is the whole of the atomic operation o *)
StepOf(o) == pc = "idle" /\ pc' = "idle" /\ op' = o

(* C19: set_speed changes at most the delay, set_direction at most the     *)
(* stored transition, split_steps nothing; none of the three touches the   *)
(* pattern or a line; no step of next_steps or next_angle changes the      *)
(* direction or the delay; steps360 never changes once it is constructed.  *)
C19_Frames ==
    [][ /\ StepOf("set_speed") =>
              /\ step_state' = step_state /\ pins' = pins
              /\ next_state' = next_state /\ steps360' = steps360
        /\ StepOf("set_direction") =>
              /\ step_state' = step_state /\ pins' = pins
              /\ delay' = delay /\ steps360' = steps360
        /\ StepOf("split_steps") =>
              /\ step_state' = step_state /\ pins' = pins
              /\ next_state' = next_state /\ delay' = delay /\ steps360' = steps360
        /\ InSteps' =>
              /\ next_state' = next_state /\ delay' = delay
              /\ pc' = "idle" => (next_state' = pre'.next_state /\ delay' = pre'.delay)
        /\ pc # "new" => steps360' = steps360
      ]_vars

(* split_steps has returned a list on an energised motor that keeps its    *)
(* pattern on the lines                                                    *)
C19_Witness ==
    /\ pc = "idle"
    /\ op = "split_steps"
    /\ arg = 3
    /\ steps360 = 200
    /\ result.kind = "list"
    /\ step_state = 9
    /\ LinesShow(pins, 9)
    /\ delay = 500
    /\ next_state = "backward"

(* C20: a next_steps with n < 0 or a next_angle with a negative angle      *)
(* makes, from its entry to its return, no transition, no pin write and no *)
(* delay, and the pattern, the lines, the direction and the delay stay as  *)
(* they were at its entry.                                                 *)
C20_NegativeNoMove ==
    (InSteps /\ arg < 0) =>
        /\ ntrans = 0 /\ nwrites = 0 /\ ndelays = 0 /\ waited = 0
        /\ ObjectState = <<pre.step_state, pre.next_state, pre.delay, pre.steps360, pre.pins>>

(* next_angle(-90) has returned on an energised motor of 200 steps per     *)
(* revolution, the loop having been given range(-50)                       *)
C20_Witness ==
    /\ pc = "idle"
    /\ op = "next_angle"
    /\ arg = -90
    /\ steps360 = 200
    /\ nsteps = -50
    /\ next_state = "forward"
    /\ LinesShow(pins, step_state)

(* C16: the stored pattern is element (F - B) mod 4 of the cycle           *)
(* 1100 -> 0110 -> 0011 -> 1001, F and B being the steps taken so far with *)
(* the direction forward and backward, whatever sleeps, speed changes and  *)
(* direction changes came in between; so forward walks the cycle in this   *)
(* order and backward in the reverse order.                                *)
C16_ModuloCounter ==
    pc # "new" => step_state = <<12, 6, 3, 9>>[net + 1]

(* after a direction change a backward move has returned three places      *)
(* before its start, the counter standing at 3 on 1001                     *)
C16_Witness ==
    /\ pc = "idle"
    /\ op = "next_steps"
    /\ next_state = "backward"
    /\ ntrans = 3
    /\ pre.step_state = 3
    /\ net = 3
    /\ step_state = 9

(* C17: a next_steps(n) with n >= 0 that has been entered returns, and it  *)
(* returns after exactly n transitions, 4n pin writes (n groups of four)   *)
(* and n delays of the stored delay; next_steps(0) makes none and leaves   *)
(* the pattern, the lines, the direction and the delay as they were.       *)
C17_StepsTerminate ==
    /\ [](( op = "next_steps" /\ arg >= 0 /\ pc # "idle") => <>(pc = "idle"))
    /\ []((pc = "idle" /\ op = "next_steps" /\ arg >= 0) =>
            /\ ntrans = arg /\ nwrites = 4 * arg /\ ndelays = arg
            /\ waited = arg * pre.delay
            /\ (arg = 0 =>
                  ObjectState = <<pre.step_state, pre.next_state, pre.delay,
                                  pre.steps360, pre.pins>>))

(* next_steps(5) has returned *)
C17_Witness ==
    /\ pc = "idle"
    /\ op = "next_steps"
    /\ arg = 5
    /\ ntrans = 5
    /\ nwrites = 20
    /\ ndelays = 5

(* C18: from any state of an idle object and for all a, b >= 0,            *)
(* next_steps(a) directly followed by next_steps(b) makes the same pin     *)
(* writes in the same order, and ends on the same pattern, direction and   *)
(* delay, as next_steps(a + b) from that state.                            *)
C18_SplitTransparent ==
    (phase = "single" /\ pc = "idle") =>
        /\ log = first.log
        /\ <<step_state, next_state, delay>> = first.fields
        /\ Len(log) = 4 * (parts.a + parts.b)

(* a backward move of 2 + 3 steps from de-energised lines on 0110 has been *)
(* compared with one of 5 steps                                            *)
C18_Witness ==
    /\ phase = "single"
    /\ pc = "idle"
    /\ parts = [a |-> 2, b |-> 3]
    /\ saved.step_state = 6
    /\ saved.pins = AllOff
    /\ next_state = "backward"
    /\ ntrans = 5
    /\ Len(first.log) = 20

====
